---- MODULE Spec2Model ----
(***************************************************************************)
(* Model of the lint pass UnnecessaryBoxReturns                            *)
(* (clippy_lints/src/unnecessary_box_returns.rs).                          *)
(*                                                                         *)
(* The pass holds one flag.  The host's tree walk hands it items, trait    *)
(* items and impl items; the three LateLintPass callbacks funnel into      *)
(* check_fn_decl, which asks the compiler context (cx) a few questions and *)
(* may emit one diagnostic.  The model keeps, besides the pass itself and  *)
(* the diagnostic sink, a record of the last callback: what it was handed, *)
(* which questions it asked of cx and in which order, and what it emitted. *)
(***************************************************************************)
EXTENDS Naturals, Sequences, FiniteSets, TLC

VARIABLES self, ctor_arg, diagnostics, last

vars == <<self, ctor_arg, diagnostics, last>>

\* Number of distinct definitions (LocalDefId) the tree walk can hand over.
MaxNodes == 2

DefIds == 1..MaxNodes

(***************************************************************************)
(* Semantic types (rustc_middle::ty::Ty), as far as the pass looks at them.*)
(***************************************************************************)
Ty(kind, name, args) == [kind |-> kind, name |-> name, args |-> args]

TyString == Ty("Adt", "String", <<>>)
TyUnit == Ty("Tuple", "", <<>>)
TyDynTrait == Ty("Dynamic", "Trait", <<>>)
NoTy == Ty("None", "", <<>>)

BoxOf(t) == Ty("Adt", "Box", <<t>>)

\* What fn_sig(def_id).output() may be for the callables the walk visits.
ReturnTypes ==
    { BoxOf(TyString), BoxOf(TyDynTrait), TyString, TyUnit }

\* Ty::is_box
is_box(ty) == ty.kind = "Adt" /\ ty.name = "Box"

\* Ty::boxed_ty: the payload of a box; a compiler bug (panic) on anything else.
boxed_ty(ty) ==
    IF is_box(ty) THEN [ok |-> TRUE, ty |-> ty.args[1]]
    ELSE [ok |-> FALSE, ty |-> NoTy]

\* Ty::is_sized: trait objects and str have no compile-time size.
is_sized(ty) == ty.kind \notin {"Dynamic", "Str", "Slice"}

\* <Ty as Display>::fmt, i.e. `{boxed_ty}` and boxed_ty.to_string().
RECURSIVE to_string(_)
to_string(ty) ==
    CASE ty.kind = "Dynamic" -> "dyn " \o ty.name
      [] ty.kind = "Tuple" -> "()"
      [] ty.kind = "Adt" /\ ty.args # <<>> ->
            ty.name \o "<" \o to_string(ty.args[1]) \o ">"
      [] OTHER -> ty.name

(***************************************************************************)
(* Source spans.  A signature's span covers the whole `fn f(..) -> T`; the *)
(* span of FnRetTy::Return(ty) is ty.span, the written return type only.   *)
(***************************************************************************)
Span(def_id, part) == [def_id |-> def_id, part |-> part]

\* FnDecl::output
FnRetTy ==
    { [tag |-> "DefaultReturn"], [tag |-> "Return"] }

FnDecl(def_id, output) ==
    [ output |-> [ tag |-> output.tag,
                   span |-> Span(def_id, IF output.tag = "Return"
                                          THEN "return_ty" ELSE "default_return") ],
      span |-> Span(def_id, "signature") ]

(***************************************************************************)
(* The nodes handed to the callbacks.  kind "Fn" carries a signature; any  *)
(* other kind (a struct, an associated const ...) carries none.            *)
(***************************************************************************)
NoDecl == [ output |-> [tag |-> "None", span |-> Span(0, "none")],
            span |-> Span(0, "none") ]

Items ==
    { [def_id |-> d, kind |-> "Fn", decl |-> FnDecl(d, o)] :
        d \in DefIds, o \in FnRetTy }
    \cup { [def_id |-> d, kind |-> "Struct", decl |-> NoDecl] : d \in DefIds }

\* TraitItemKind::Fn(sig, TraitFn::Required | TraitFn::Provided) or another kind.
TraitItems ==
    { [def_id |-> d, kind |-> "Fn", body |-> b, decl |-> FnDecl(d, o)] :
        d \in DefIds, b \in {"Required", "Provided"}, o \in FnRetTy }
    \cup { [def_id |-> d, kind |-> "Const", body |-> "None", decl |-> NoDecl] :
             d \in DefIds }

ImplItems ==
    { [def_id |-> d, kind |-> "Fn", decl |-> FnDecl(d, o)] :
        d \in DefIds, o \in FnRetTy }
    \cup { [def_id |-> d, kind |-> "Const", decl |-> NoDecl] : d \in DefIds }

\* What tcx.hir().get_parent(hir_id) can be matched as by check_impl_item:
\* an impl of a trait, an inherent impl, an item that is no impl, no item.
ParentNodes ==
    { [node |-> "Item", kind |-> "Impl", of_trait |-> "Some"],
      [node |-> "Item", kind |-> "Impl", of_trait |-> "None"],
      [node |-> "Item", kind |-> "Trait", of_trait |-> "None"],
      [node |-> "Block", kind |-> "", of_trait |-> "None"] }

ModParent == [node |-> "Item", kind |-> "Mod", of_trait |-> "None"]

TraitParent == [node |-> "Item", kind |-> "Trait", of_trait |-> "None"]

(***************************************************************************)
(* The compiler context seen by one callback: the answers of               *)
(* effective_visibilities.is_exported, fn_sig(..).output() and get_parent  *)
(* for the node at hand.  Only a function has a fn_sig.                    *)
(***************************************************************************)
Contexts(item, parents) ==
    [ exported : BOOLEAN,
      fn_sig_output : IF item.kind = "Fn" THEN ReturnTypes ELSE {NoTy},
      parent : parents ]

\* A free function sits in a module, a trait item in its trait, an impl item
\* wherever get_parent says.
ItemContexts(item) == Contexts(item, {ModParent})

TraitItemContexts(item) == Contexts(item, {TraitParent})

ImplItemContexts(item) == Contexts(item, ParentNodes)

(***************************************************************************)
(* The pass.                                                               *)
(***************************************************************************)
\* UnnecessaryBoxReturns::new
new(avoid_breaking_exported_api) ==
    [avoid_breaking_exported_api |-> avoid_breaking_exported_api]

\* One question asked of the compiler context: which query, about which
\* definition or type, and the answer.
Call(fn, def_id, ty, res_bool, res_ty) ==
    [fn |-> fn, def_id |-> def_id, ty |-> ty, res_bool |-> res_bool, res_ty |-> res_ty]

\* What one callback did: the pass afterwards, whether check_fn_decl was
\* entered, the queries in order, the diagnostics emitted in order, and
\* whether it panicked.
Outcome(pass, reached, calls, emitted, panicked) ==
    [self |-> pass, reached |-> reached, calls |-> calls, emitted |-> emitted,
     panicked |-> panicked]

\* Mutant: the export test forgets the flag (`if is_exported(def_id)`).
exported_api_guard_ignores_flag(pass, cx, def_id) ==
    [ calls |-> <<Call("is_exported", def_id, NoTy, cx.exported, NoTy)>>,
      stop |-> cx.exported ]

\* Mutant: the flag is read the wrong way round (`!self.avoid_... && ..`).
exported_api_guard_negated_flag(pass, cx, def_id) ==
    [ calls |-> IF ~pass.avoid_breaking_exported_api
                THEN <<Call("is_exported", def_id, NoTy, cx.exported, NoTy)>>
                ELSE <<>>,
      stop |-> ~pass.avoid_breaking_exported_api /\ cx.exported ]

\* The `self.avoid_breaking_exported_api && is_exported(def_id)` test: `&&`
\* asks is_exported only when the flag is set.
exported_api_guard(pass, cx, def_id) ==
    [ calls |-> IF pass.avoid_breaking_exported_api
                THEN <<Call("is_exported", def_id, NoTy, cx.exported, NoTy)>>
                ELSE <<>>,
      stop |-> pass.avoid_breaking_exported_api /\ cx.exported ]

\* A piece of message text set between backticks (a backtick cannot be
\* written inside a TLA+ string).
Backticked(text) == [quote |-> "backtick", text |-> text]

\* Mutant: the suggestion is marked Applicability::MachineApplicable.
span_lint_and_then_machine_applicable(return_ty_hir, boxed) ==
    [ lint |-> "UNNECESSARY_BOX_RETURNS",
      span |-> return_ty_hir.span,
      msg |-> <<"boxed return of the sized type ", Backticked(to_string(boxed))>>,
      suggestion |-> [ span |-> return_ty_hir.span,
                       msg |-> "try",
                       text |-> to_string(boxed),
                       applicability |-> "MachineApplicable" ],
      help |-> << "changing", "this", "also", "requires", "a", "change", "to",
                  "the", "return", "expressions", "in", "this", "function" >> ]

\* Mutant: the closure forgets diagnostic.help(..).
span_lint_and_then_no_help(return_ty_hir, boxed) ==
    [ lint |-> "UNNECESSARY_BOX_RETURNS",
      span |-> return_ty_hir.span,
      msg |-> <<"boxed return of the sized type ", Backticked(to_string(boxed))>>,
      suggestion |-> [ span |-> return_ty_hir.span,
                       msg |-> "try",
                       text |-> to_string(boxed),
                       applicability |-> "Unspecified" ],
      help |-> <<>> ]

\* The span_lint_and_then(..) call with its closure: the diagnostic built
\* for a return type written at return_ty_hir whose box holds boxed.  The
\* message is the format string's literal part followed by the backticked
\* `{boxed_ty}`; the help text is kept word by word.
span_lint_and_then(return_ty_hir, boxed) ==
    [ lint |-> "UNNECESSARY_BOX_RETURNS",
      span |-> return_ty_hir.span,
      msg |-> <<"boxed return of the sized type ", Backticked(to_string(boxed))>>,
      suggestion |-> [ span |-> return_ty_hir.span,
                       msg |-> "try",
                       text |-> to_string(boxed),
                       applicability |-> "Unspecified" ],
      help |-> << "changing", "this", "also", "requires", "a", "change", "to",
                  "the", "return", "expressions", "in", "this", "function" >> ]

\* Mutant: the is_sized test is dropped; every box is linted.
check_fn_decl_lints_unsized(pass, cx, decl, def_id) ==
    LET guard == exported_api_guard(pass, cx, def_id)
        return_ty == cx.fn_sig_output
        resolved == guard.calls \o
            << Call("fn_sig", def_id, NoTy, FALSE, return_ty),
               Call("is_box", 0, return_ty, is_box(return_ty), NoTy) >>
        payload == boxed_ty(return_ty)
        unboxed == resolved \o
            << Call("boxed_ty", 0, return_ty, payload.ok, payload.ty) >>
        sized == unboxed \o
            << Call("is_sized", 0, payload.ty, is_sized(payload.ty), NoTy) >>
    IN  IF guard.stop THEN Outcome(pass, TRUE, guard.calls, <<>>, FALSE)
        ELSE IF decl.output.tag # "Return"
             THEN Outcome(pass, TRUE, guard.calls, <<>>, FALSE)
        ELSE IF ~is_box(return_ty) THEN Outcome(pass, TRUE, resolved, <<>>, FALSE)
        ELSE IF ~payload.ok THEN Outcome(pass, TRUE, unboxed, <<>>, TRUE)
        ELSE Outcome(pass, TRUE, unboxed,
                     <<span_lint_and_then(decl.output, payload.ty)>>, FALSE)

\* Mutant: the written return type is not required; the lint is put on
\* whatever span decl.output has.
check_fn_decl_lints_implicit(pass, cx, decl, def_id) ==
    LET guard == exported_api_guard(pass, cx, def_id)
        return_ty == cx.fn_sig_output
        resolved == guard.calls \o
            << Call("fn_sig", def_id, NoTy, FALSE, return_ty),
               Call("is_box", 0, return_ty, is_box(return_ty), NoTy) >>
        payload == boxed_ty(return_ty)
        unboxed == resolved \o
            << Call("boxed_ty", 0, return_ty, payload.ok, payload.ty) >>
        sized == unboxed \o
            << Call("is_sized", 0, payload.ty, is_sized(payload.ty), NoTy) >>
    IN  IF guard.stop THEN Outcome(pass, TRUE, guard.calls, <<>>, FALSE)
        ELSE IF ~is_box(return_ty) THEN Outcome(pass, TRUE, resolved, <<>>, FALSE)
        ELSE IF ~payload.ok THEN Outcome(pass, TRUE, unboxed, <<>>, TRUE)
        ELSE IF is_sized(payload.ty)
             THEN Outcome(pass, TRUE, sized,
                          <<span_lint_and_then(decl.output, payload.ty)>>, FALSE)
        ELSE Outcome(pass, TRUE, sized, <<>>, FALSE)

\* Mutant: the is_box test is dropped; boxed_ty is called on any type.
check_fn_decl_unchecked_box(pass, cx, decl, def_id) ==
    LET guard == exported_api_guard(pass, cx, def_id)
        return_ty == cx.fn_sig_output
        resolved == guard.calls \o
            << Call("fn_sig", def_id, NoTy, FALSE, return_ty),
               Call("is_box", 0, return_ty, is_box(return_ty), NoTy) >>
        payload == boxed_ty(return_ty)
        unboxed == resolved \o
            << Call("boxed_ty", 0, return_ty, payload.ok, payload.ty) >>
        sized == unboxed \o
            << Call("is_sized", 0, payload.ty, is_sized(payload.ty), NoTy) >>
    IN  IF guard.stop THEN Outcome(pass, TRUE, guard.calls, <<>>, FALSE)
        ELSE IF decl.output.tag # "Return"
             THEN Outcome(pass, TRUE, guard.calls, <<>>, FALSE)
        ELSE IF ~payload.ok THEN Outcome(pass, TRUE, unboxed, <<>>, TRUE)
        ELSE IF is_sized(payload.ty)
             THEN Outcome(pass, TRUE, sized,
                          <<span_lint_and_then(decl.output, payload.ty)>>, FALSE)
        ELSE Outcome(pass, TRUE, sized, <<>>, FALSE)

\* Mutant: through its `&mut self` the routine switches the flag on once it has
\* linted something.
check_fn_decl_latches(pass, cx, decl, def_id) ==
    LET guard == exported_api_guard(pass, cx, def_id)
        return_ty == cx.fn_sig_output
        resolved == guard.calls \o
            << Call("fn_sig", def_id, NoTy, FALSE, return_ty),
               Call("is_box", 0, return_ty, is_box(return_ty), NoTy) >>
        payload == boxed_ty(return_ty)
        unboxed == resolved \o
            << Call("boxed_ty", 0, return_ty, payload.ok, payload.ty) >>
        sized == unboxed \o
            << Call("is_sized", 0, payload.ty, is_sized(payload.ty), NoTy) >>
    IN  IF guard.stop THEN Outcome(pass, TRUE, guard.calls, <<>>, FALSE)
        ELSE IF decl.output.tag # "Return"
             THEN Outcome(pass, TRUE, guard.calls, <<>>, FALSE)
        ELSE IF ~is_box(return_ty) THEN Outcome(pass, TRUE, resolved, <<>>, FALSE)
        ELSE IF ~payload.ok THEN Outcome(pass, TRUE, unboxed, <<>>, TRUE)
        ELSE IF is_sized(payload.ty)
             THEN Outcome([pass EXCEPT !.avoid_breaking_exported_api = TRUE],
                          TRUE, sized,
                          <<span_lint_and_then(decl.output, payload.ty)>>, FALSE)
        ELSE Outcome(pass, TRUE, sized, <<>>, FALSE)

\* UnnecessaryBoxReturns::check_fn_decl
check_fn_decl(pass, cx, decl, def_id) ==
    LET guard == exported_api_guard(pass, cx, def_id)
        return_ty == cx.fn_sig_output
        resolved == guard.calls \o
            << Call("fn_sig", def_id, NoTy, FALSE, return_ty),
               Call("is_box", 0, return_ty, is_box(return_ty), NoTy) >>
        payload == boxed_ty(return_ty)
        unboxed == resolved \o
            << Call("boxed_ty", 0, return_ty, payload.ok, payload.ty) >>
        sized == unboxed \o
            << Call("is_sized", 0, payload.ty, is_sized(payload.ty), NoTy) >>
    IN  IF guard.stop THEN Outcome(pass, TRUE, guard.calls, <<>>, FALSE)
        ELSE IF decl.output.tag # "Return"
             THEN Outcome(pass, TRUE, guard.calls, <<>>, FALSE)
        ELSE IF ~is_box(return_ty) THEN Outcome(pass, TRUE, resolved, <<>>, FALSE)
        ELSE IF ~payload.ok THEN Outcome(pass, TRUE, unboxed, <<>>, TRUE)
        ELSE IF is_sized(payload.ty)
             THEN Outcome(pass, TRUE, sized,
                          <<span_lint_and_then(decl.output, payload.ty)>>, FALSE)
        ELSE Outcome(pass, TRUE, sized, <<>>, FALSE)

\* A callback that returns before check_fn_decl.
Skipped(pass) == Outcome(pass, FALSE, <<>>, <<>>, FALSE)

\* LateLintPass::check_trait_item
check_trait_item(pass, cx, item) ==
    IF item.kind # "Fn" THEN Skipped(pass)
    ELSE check_fn_decl(pass, cx, item.decl, item.def_id)

\* Mutant: the `of_trait.is_some()` early return is missing.
check_impl_item_lints_trait_impls(pass, cx, item) ==
    IF cx.parent.node # "Item" THEN Skipped(pass)
    ELSE IF cx.parent.kind # "Impl" THEN Skipped(pass)
    ELSE IF item.kind # "Fn" THEN Skipped(pass)
    ELSE check_fn_decl(pass, cx, item.decl, item.def_id)

\* Mutant: only a parent that is an impl of a trait is skipped; a parent
\* that is no impl, or no item, is let through.
check_impl_item_any_parent(pass, cx, item) ==
    IF cx.parent.node = "Item" /\ cx.parent.kind = "Impl" /\ cx.parent.of_trait = "Some"
    THEN Skipped(pass)
    ELSE IF item.kind # "Fn" THEN Skipped(pass)
    ELSE check_fn_decl(pass, cx, item.decl, item.def_id)

\* LateLintPass::check_impl_item
check_impl_item(pass, cx, item) ==
    IF cx.parent.node # "Item" THEN Skipped(pass)
    ELSE IF cx.parent.kind # "Impl" THEN Skipped(pass)
    ELSE IF cx.parent.of_trait = "Some" THEN Skipped(pass)
    ELSE IF item.kind # "Fn" THEN Skipped(pass)
    ELSE check_fn_decl(pass, cx, item.decl, item.def_id)

\* LateLintPass::check_item
check_item(pass, cx, item) ==
    IF item.kind # "Fn" THEN Skipped(pass)
    ELSE check_fn_decl(pass, cx, item.decl, item.def_id)

(***************************************************************************)
(* The state machine: the host's tree walk calls the callbacks in any      *)
(* order, any number of times; a panic ends the analysis.                  *)
(***************************************************************************)
NoInvocation == [entry |-> "none"]

Invocation(entry, cx, item, out) ==
    [ entry |-> entry, cx |-> cx, item |-> item, flag |-> self.avoid_breaking_exported_api,
      reached |-> out.reached, calls |-> out.calls, emitted |-> out.emitted,
      panicked |-> out.panicked ]

Range(s) == { s[i] : i \in 1..Len(s) }

Aborted == last.entry # "none" /\ last.panicked

Init ==
    /\ ctor_arg \in BOOLEAN
    /\ self = new(ctor_arg)
    /\ diagnostics = {}
    /\ last = NoInvocation

CheckItem ==
    /\ ~Aborted
    /\ \E item \in Items : \E cx \in ItemContexts(item) :
         LET out == check_item(self, cx, item)
         IN  /\ self' = out.self
             /\ diagnostics' = diagnostics \cup Range(out.emitted)
             /\ last' = Invocation("check_item", cx, item, out)
    /\ UNCHANGED ctor_arg

CheckTraitItem ==
    /\ ~Aborted
    /\ \E item \in TraitItems : \E cx \in TraitItemContexts(item) :
         LET out == check_trait_item(self, cx, item)
         IN  /\ self' = out.self
             /\ diagnostics' = diagnostics \cup Range(out.emitted)
             /\ last' = Invocation("check_trait_item", cx, item, out)
    /\ UNCHANGED ctor_arg

CheckImplItem ==
    /\ ~Aborted
    /\ \E item \in ImplItems : \E cx \in ImplItemContexts(item) :
         LET out == check_impl_item(self, cx, item)
         IN  /\ self' = out.self
             /\ diagnostics' = diagnostics \cup Range(out.emitted)
             /\ last' = Invocation("check_impl_item", cx, item, out)
    /\ UNCHANGED ctor_arg

Next == CheckItem \/ CheckTraitItem \/ CheckImplItem

Spec == Init /\ [][Next]_vars

(***************************************************************************)
(* Vocabulary of the properties.  These describe the node and context a    *)
(* callback was handed in their own terms, not through the pass's code.    *)
(***************************************************************************)
Invoked == last.entry # "none"

\* The node is a function, and an impl item's parent is an impl block.
Callable ==
    /\ last.item.kind = "Fn"
    /\ last.entry = "check_impl_item" =>
          last.cx.parent.node = "Item" /\ last.cx.parent.kind = "Impl"

ExplicitReturn == last.item.decl.output.tag = "Return"

SizedPayloads == {TyString, TyUnit}

UnsizedPayloads == {TyDynTrait}

ReturnsBoxOfSized == \E t \in SizedPayloads : last.cx.fn_sig_output = BoxOf(t)

ReturnsBoxOfUnsized == \E t \in UnsizedPayloads : last.cx.fn_sig_output = BoxOf(t)

ReturnsBox == ReturnsBoxOfSized \/ ReturnsBoxOfUnsized

SuppressedByExportPolicy == last.flag /\ last.cx.exported

InTraitImpl ==
    /\ last.entry = "check_impl_item"
    /\ last.cx.parent.node = "Item"
    /\ last.cx.parent.kind = "Impl"
    /\ last.cx.parent.of_trait = "Some"

InInherentImpl ==
    /\ last.entry = "check_impl_item"
    /\ last.cx.parent.node = "Item"
    /\ last.cx.parent.kind = "Impl"
    /\ last.cx.parent.of_trait = "None"

QualifyingSignature ==
    ExplicitReturn /\ ReturnsBoxOfSized /\ ~SuppressedByExportPolicy

NoFinding == last.emitted = <<>>

OneFinding == Len(last.emitted) = 1

AsksFor(fn) == \E i \in 1..Len(last.calls) : last.calls[i].fn = fn

(***************************************************************************)
(* C1.  For every callable handed to any of the three callbacks and every  *)
(* value of the flag, the callback emits exactly one diagnostic if the     *)
(* return type is written, the resolved return type is a box, its payload  *)
(* is sized, not (flag and exported), and the callable is no method of an  *)
(* impl of a trait; otherwise it emits none.                               *)
(***************************************************************************)
C1_FindingIffQualifies ==
    (Invoked /\ Callable) =>
        IF QualifyingSignature /\ ~InTraitImpl THEN OneFinding ELSE NoFinding

C1_Witness ==
    /\ Invoked /\ Callable
    /\ last.entry = "check_item"
    /\ QualifyingSignature /\ last.cx.exported /\ ~last.flag
    /\ OneFinding

(***************************************************************************)
(* C2.  A method of an impl of a trait never gets a diagnostic, whatever   *)
(* its signature and the flag; the same qualifying signature gets exactly  *)
(* one on the trait's own declaration (required or provided) and on a      *)
(* method of an inherent impl.                                             *)
(***************************************************************************)
C2_TraitImplException ==
    /\ (Invoked /\ InTraitImpl) => NoFinding
    /\ (Invoked /\ last.entry = "check_trait_item" /\ last.item.kind = "Fn"
           /\ QualifyingSignature) => OneFinding
    /\ (Invoked /\ InInherentImpl /\ last.item.kind = "Fn"
           /\ QualifyingSignature) => OneFinding

C2_Witness ==
    /\ Invoked /\ InTraitImpl
    /\ last.item.kind = "Fn" /\ QualifyingSignature
    /\ NoFinding

(***************************************************************************)
(* C3.  For a callable that otherwise qualifies, being exported suppresses *)
(* the diagnostic if and only if the flag is true.                         *)
(***************************************************************************)
C3_ExportPolicy ==
    (Invoked /\ Callable /\ ~InTraitImpl /\ ExplicitReturn /\ ReturnsBoxOfSized) =>
        /\ (last.flag /\ last.cx.exported) => NoFinding
        /\ (last.flag /\ ~last.cx.exported) => OneFinding
        /\ ~last.flag => OneFinding

C3_Witness ==
    /\ Invoked /\ Callable /\ ~InTraitImpl /\ ExplicitReturn /\ ReturnsBoxOfSized
    /\ last.flag /\ last.cx.exported
    /\ NoFinding

(***************************************************************************)
(* C4.  A box around an unsized payload never gets a diagnostic: not for   *)
(* either value of the flag, exported or not, through any callback.        *)
(***************************************************************************)
C4_UnsizedNeverLinted ==
    (Invoked /\ ReturnsBoxOfUnsized) => NoFinding

C4_Witness ==
    /\ Invoked /\ Callable /\ ~InTraitImpl /\ ExplicitReturn
    /\ ~SuppressedByExportPolicy
    /\ ReturnsBoxOfUnsized
    /\ AsksFor("is_sized")
    /\ NoFinding

(***************************************************************************)
(* C5.  A callable without a written return type never gets a diagnostic,  *)
(* whatever the flag, the export status, the callback and the type that    *)
(* type resolution reports.                                                *)
(***************************************************************************)
C5_ImplicitNeverLinted ==
    (Invoked /\ last.item.kind = "Fn" /\ ~ExplicitReturn) => NoFinding

C5_Witness ==
    /\ Invoked /\ Callable /\ ~InTraitImpl
    /\ ~ExplicitReturn
    /\ ReturnsBoxOfSized /\ ~SuppressedByExportPolicy
    /\ last.reached
    /\ NoFinding

(***************************************************************************)
(* C6.  Every diagnostic is anchored at the span of the written return     *)
(* type, not at the signature; its message names the rendered payload of   *)
(* the box; its suggestion replaces that same span by the rendered payload *)
(* (`String` for Box<String>); and the suggestion is never marked          *)
(* machine-applicable.                                                     *)
(***************************************************************************)
C6_FindingShape ==
    /\ \A f \in diagnostics :
          /\ f.span.part = "return_ty"
          /\ f.suggestion.span = f.span
          /\ f.suggestion.applicability = "Unspecified"
          /\ f.msg[2].text = f.suggestion.text
    /\ Invoked =>
          \A i \in 1..Len(last.emitted) :
              /\ last.emitted[i] \in diagnostics
              /\ last.emitted[i].span = last.item.decl.output.span
              /\ last.emitted[i].span # last.item.decl.span
              /\ last.cx.fn_sig_output = BoxOf(TyString) =>
                    /\ last.emitted[i].suggestion.text = "String"
                    /\ last.emitted[i].msg =
                          <<"boxed return of the sized type ", Backticked("String")>>

C6_Witness ==
    /\ Invoked /\ OneFinding
    /\ last.cx.fn_sig_output = BoxOf(TyString)
    /\ last.emitted[1].suggestion.text = "String"
    /\ Cardinality(diagnostics) = MaxNodes

(***************************************************************************)
(* C7.  As claimed: every diagnostic carries a note saying that both the   *)
(* return expressions and the call sites of the callable must change.      *)
(* The help text of the code speaks of the return expressions only.        *)
(***************************************************************************)
Mentions(text, words) == \E i \in 1..Len(text) : text[i] \in words

ReturnExpressionWords == {"return"}

CallSiteWords == {"call", "calls", "caller", "callers", "site", "sites"}

C7_NoteNamesReturnsAndCallSites ==
    \A f \in diagnostics :
        /\ Mentions(f.help, ReturnExpressionWords)
        /\ Mentions(f.help, CallSiteWords)

\* C7 as amended: every diagnostic carries the help text "changing this also
\* requires a change to the return expressions in this function"; it speaks
\* of the return expressions and says nothing of call sites.
C7_NoteNamesReturnExpressions ==
    \A f \in diagnostics :
        /\ f.help = << "changing", "this", "also", "requires", "a", "change", "to",
                       "the", "return", "expressions", "in", "this", "function" >>
        /\ Mentions(f.help, ReturnExpressionWords)
        /\ ~Mentions(f.help, CallSiteWords)

C7_Witness ==
    /\ Invoked /\ OneFinding
    /\ Mentions(last.emitted[1].help, {"expressions"})
    /\ last.emitted[1] \in diagnostics

(***************************************************************************)
(* C8.  The diagnostics are a function of the nodes visited and of the     *)
(* flag the pass was built with: no callback changes the pass; what a      *)
(* callback emits is what a freshly built pass emits for the same node,    *)
(* whatever was visited before and whatever the sink holds; the sink grows *)
(* by exactly that; and visiting the same node again adds nothing.         *)
(***************************************************************************)
FreshOutcome(inv) ==
    CASE inv.entry = "check_item" -> check_item(new(ctor_arg), inv.cx, inv.item)
      [] inv.entry = "check_trait_item" ->
            check_trait_item(new(ctor_arg), inv.cx, inv.item)
      [] inv.entry = "check_impl_item" ->
            check_impl_item(new(ctor_arg), inv.cx, inv.item)

SameNode(a, b) ==
    a.entry # "none" /\ a.entry = b.entry /\ a.item = b.item /\ a.cx = b.cx

C8_Step ==
    /\ self = new(ctor_arg)
    /\ self' = self
    /\ last'.emitted = FreshOutcome(last').emitted
    /\ diagnostics' = diagnostics \cup Range(FreshOutcome(last').emitted)
    /\ SameNode(last, last') => diagnostics' = diagnostics

C8_Independent == [][C8_Step]_vars

C8_Witness ==
    /\ Invoked
    /\ self.avoid_breaking_exported_api /\ ctor_arg
    /\ last.cx.exported /\ ExplicitReturn /\ ReturnsBoxOfSized /\ NoFinding
    /\ Cardinality(diagnostics) = MaxNodes

(***************************************************************************)
(* C9.  check_impl_item returns before check_fn_decl, asking nothing more  *)
(* and emitting nothing, when the parent is no item, or an item that is no *)
(* impl, or the impl item is no function; it enters check_fn_decl only     *)
(* for a function whose parent is an impl with no trait reference.         *)
(***************************************************************************)
C9_ImplEntryFailsSafe ==
    (Invoked /\ last.entry = "check_impl_item") =>
        /\ ( \/ last.cx.parent.node # "Item"
             \/ last.cx.parent.kind # "Impl"
             \/ last.item.kind # "Fn" )
             => (~last.reached /\ last.calls = <<>> /\ NoFinding)
        /\ last.reached =>
              /\ last.cx.parent.node = "Item"
              /\ last.cx.parent.kind = "Impl"
              /\ last.cx.parent.of_trait = "None"
              /\ last.item.kind = "Fn"

C9_Witness ==
    /\ Invoked /\ last.entry = "check_impl_item"
    /\ last.cx.parent.node # "Item"
    /\ last.item.kind = "Fn" /\ QualifyingSignature
    /\ ~last.reached /\ NoFinding

(***************************************************************************)
(* C10.  No callback panics, and the context is asked in dependency order: *)
(* boxed_ty only on the type fn_sig returned and is_box answered true for, *)
(* is_sized only on the payload boxed_ty returned; and when the export     *)
(* test stops the routine or no return type is written, neither fn_sig,    *)
(* boxed_ty nor is_sized is asked.                                         *)
(***************************************************************************)
C10_DependencyOrder ==
    Invoked =>
        /\ ~last.panicked
        /\ \A i \in 1..Len(last.calls) :
              /\ last.calls[i].fn = "boxed_ty" =>
                    /\ last.calls[i].res_bool
                    /\ \E j \in 1..(i - 1) :
                          /\ last.calls[j].fn = "is_box"
                          /\ last.calls[j].ty = last.calls[i].ty
                          /\ last.calls[j].res_bool
                          /\ \E k \in 1..(j - 1) :
                                /\ last.calls[k].fn = "fn_sig"
                                /\ last.calls[k].def_id = last.item.def_id
                                /\ last.calls[k].res_ty = last.calls[i].ty
              /\ last.calls[i].fn = "is_sized" =>
                    \E j \in 1..(i - 1) :
                        /\ last.calls[j].fn = "boxed_ty"
                        /\ last.calls[j].res_ty = last.calls[i].ty
        /\ (SuppressedByExportPolicy \/ ~ExplicitReturn) =>
              ~(AsksFor("fn_sig") \/ AsksFor("boxed_ty") \/ AsksFor("is_sized"))

C10_Witness ==
    /\ Invoked /\ last.reached
    /\ Len(last.calls) = 5
    /\ last.calls[1].fn = "is_exported" /\ ~last.calls[1].res_bool
    /\ last.calls[5].fn = "is_sized" /\ ~last.calls[5].res_bool
    /\ ~last.panicked

====
